---------------------------- MODULE Spec2Model ----------------------------
(***************************************************************************)
(* A model of src/src/ucioption.cpp (SugaR): the UCI Option, the           *)
(* case-insensitive OptionsMap with its insertion index, the printing of   *)
(* the options, and the tuning framework appended to the file.             *)
(*                                                                         *)
(* A std::string is a sequence of character codes (ASCII), so that         *)
(* tolower(), stof() and std::to_string() are computed, not assumed.       *)
(***************************************************************************)
EXTENDS Integers, Sequences, FiniteSets

(***************************************************************************)
(* Texts                                                                   *)
(***************************************************************************)
\* ""
T_empty == << >>
\* "true"
T_true == <<116, 114, 117, 101>>
\* "false"
T_false == <<102, 97, 108, 115, 101>>
\* "0"
T_0 == <<48>>
\* "6"
T_6 == <<54>>
\* "2.5"
T_2p5 == <<50, 46, 53>>
\* "512"
T_512 == <<53, 49, 50>>
\* "513"
T_513 == <<53, 49, 51>>
\* "nan"
T_nan == <<110, 97, 110>>
\* "inf"
T_inf == <<105, 110, 102>>
\* "abc"
T_abc == <<97, 98, 99>>
\* "off"
T_off == <<111, 102, 102>>
\* "Both"
T_Both == <<66, 111, 116, 104>>
\* "Both var Off var White var Black var Both"
T_AnalysisChoices ==
    <<66, 111, 116, 104, 32, 118, 97, 114, 32, 79, 102, 102, 32, 118, 97, 114,
      32, 87, 104, 105, 116, 101, 32, 118, 97, 114, 32, 66, 108, 97, 99, 107,
      32, 118, 97, 114, 32, 66, 111, 116, 104>>
\* " var ", the separator of the choices in a combo's default text
T_var == <<32, 118, 97, 114, 32>>
\* ".000000", what "%f" prints after the integral part of an integral double
T_fraction == <<46, 48, 48, 48, 48, 48, 48>>

\* "Threads"
N_Threads == <<84, 104, 114, 101, 97, 100, 115>>
\* "THREADS"
N_THREADS == <<84, 72, 82, 69, 65, 68, 83>>
\* "Ponder"
N_Ponder == <<80, 111, 110, 100, 101, 114>>
\* "Clear Hash"
N_ClearHash == <<67, 108, 101, 97, 114, 32, 72, 97, 115, 104>>
\* "Analysis_CT"
N_AnalysisCT == <<65, 110, 97, 108, 121, 115, 105, 115, 95, 67, 84>>
\* "Debug Log File"
N_DebugLogFile == <<68, 101, 98, 117, 103, 32, 76, 111, 103, 32, 70, 105, 108, 101>>

(***************************************************************************)
(* Characters                                                              *)
(***************************************************************************)
\* tolower() in the "C" locale
ToLower(c) == IF c \in 65..90 THEN c + 32 ELSE c

\* isspace() in the "C" locale: what strtof skips before a number
IsSpace(c) == c \in {32, 9, 10, 11, 12, 13}

IsDigit(c) == c \in 48..57

(***************************************************************************)
(* CaseInsensitiveLess: std::lexicographical_compare under tolower         *)
(***************************************************************************)
RECURSIVE LexicographicalCompare(_, _)
LexicographicalCompare(s1, s2) ==
    IF s2 = << >> THEN FALSE
    ELSE IF s1 = << >> THEN TRUE
    ELSE IF ToLower(Head(s1)) < ToLower(Head(s2)) THEN TRUE
    ELSE IF ToLower(Head(s2)) < ToLower(Head(s1)) THEN FALSE
    ELSE LexicographicalCompare(Tail(s1), Tail(s2))

\* the comparison without tolower: std::less<std::string> on ASCII texts
RECURSIVE CaseSensitiveLess(_, _)
CaseSensitiveLess(s1, s2) ==
    IF s2 = << >> THEN FALSE
    ELSE IF s1 = << >> THEN TRUE
    ELSE IF Head(s1) < Head(s2) THEN TRUE
    ELSE IF Head(s2) < Head(s1) THEN FALSE
    ELSE CaseSensitiveLess(Tail(s1), Tail(s2))

CaseInsensitiveLess(s1, s2) == LexicographicalCompare(s1, s2)

\* the equivalence a std::map derives from its comparator
KeyEquiv(s1, s2) == ~CaseInsensitiveLess(s1, s2) /\ ~CaseInsensitiveLess(s2, s1)

(***************************************************************************)
(* std::stof and std::to_string                                            *)
(***************************************************************************)
RECURSIVE SkipSpaces(_)
SkipSpaces(s) ==
    IF s # << >> /\ IsSpace(Head(s)) THEN SkipSpaces(Tail(s)) ELSE s

RECURSIVE DigitRun(_)
DigitRun(s) ==
    IF s # << >> /\ IsDigit(Head(s)) THEN <<Head(s)>> \o DigitRun(Tail(s))
    ELSE << >>

RECURSIVE DigitsValue(_, _)
DigitsValue(ds, acc) ==
    IF ds = << >> THEN acc ELSE DigitsValue(Tail(ds), acc * 10 + (Head(ds) - 48))

StartsWithNoCase(s, w) ==
    Len(s) >= Len(w) /\ \A i \in 1..Len(w) : ToLower(s[i]) = w[i]

\* stof(v): strtof's grammar without exponents and hexadecimal forms (no
\* input of the model has one): blanks, a sign, digits with an optional
\* fraction, or "nan" / "inf" in any letter case; what follows is ignored.
\* When no conversion can be made stof throws std::invalid_argument.
\* A finite result is kept exactly as (neg, int, frac): int is the value
\* truncated toward zero and frac says that a nonzero fraction was cut.
\* Every number of the model has at most six significant digits, where the
\* float stof returns compares with an int as the exact value does.
Stof(v) ==
    LET s0  == SkipSpaces(v)
        neg == s0 # << >> /\ Head(s0) = 45
        s1  == IF s0 # << >> /\ Head(s0) \in {43, 45} THEN Tail(s0) ELSE s0
        ip  == DigitRun(s1)
        s2  == SubSeq(s1, Len(ip) + 1, Len(s1))
        fp  == IF s2 # << >> /\ Head(s2) = 46 THEN DigitRun(Tail(s2)) ELSE << >>
        mag == DigitsValue(ip, 0)
    IN  IF ip # << >> \/ fp # << >>
        THEN [status |-> "ok", kind |-> "finite", neg |-> neg,
              int |-> IF neg THEN -mag ELSE mag, frac |-> DigitsValue(fp, 0) > 0]
        ELSE IF StartsWithNoCase(s1, T_nan)
        THEN [status |-> "ok", kind |-> "nan", neg |-> neg, int |-> 0, frac |-> FALSE]
        ELSE IF StartsWithNoCase(s1, T_inf)
        THEN [status |-> "ok", kind |-> "inf", neg |-> neg, int |-> 0, frac |-> FALSE]
        ELSE [status |-> "invalid_argument", kind |-> "none", neg |-> FALSE,
              int |-> 0, frac |-> FALSE]

\* f < m for the float f = stof(..) and the int m: false for a NaN
FloatLess(f, m) ==
    CASE f.kind = "finite" -> f.int < m \/ (f.int = m /\ f.neg /\ f.frac)
      [] f.kind = "inf"    -> f.neg
      [] OTHER             -> FALSE

\* f > m for the float f = stof(..) and the int m: false for a NaN
FloatGreater(f, m) ==
    CASE f.kind = "finite" -> f.int > m \/ (f.int = m /\ ~f.neg /\ f.frac)
      [] f.kind = "inf"    -> ~f.neg
      [] OTHER             -> FALSE

RECURSIVE NatToText(_)
NatToText(n) ==
    IF n < 10 THEN <<48 + n>> ELSE NatToText(n \div 10) \o <<48 + (n % 10)>>

\* an int printed by operator<<(ostream&, int)
IntToText(n) == IF n < 0 THEN <<45>> \o NatToText(-n) ELSE NatToText(n)

\* std::to_string(double) of an integral value: "%f"
ToString(v) == IntToText(v) \o T_fraction

(***************************************************************************)
(* Option: constructors and conversions                                    *)
(***************************************************************************)
\* a null OnChange
nullptr == "nullptr"

\* The fields every constructor sets. idx is set by operator<< only.
MakeOption(t, d, c, lo, hi, f) ==
    [type |-> t, defaultValue |-> d, currentValue |-> c, min |-> lo, max |-> hi,
     on_change |-> f]

\* Option(const char* v, OnChange f)
OptionString(v, f) == MakeOption("string", v, v, 0, 0, f)

\* Option(bool v, OnChange f)
OptionCheck(v, f) ==
    MakeOption("check", IF v THEN T_true ELSE T_false,
               IF v THEN T_true ELSE T_false, 0, 0, f)

\* Option(OnChange f)
OptionButton(f) == MakeOption("button", T_empty, T_empty, 0, 0, f)

\* Option(double v, int minv, int maxv, OnChange f), v integral
OptionSpin(v, minv, maxv, f) ==
    MakeOption("spin", ToString(v), ToString(v), minv, maxv, f)

\* Option(const char* v, const char* cur, OnChange f)
OptionCombo(v, cur, f) == MakeOption("combo", v, cur, 0, 0, f)

\* The Option as it sits in a map: the constructor's fields and idx
WithIdx(o, i) ==
    [type |-> o.type, defaultValue |-> o.defaultValue,
     currentValue |-> o.currentValue, min |-> o.min, max |-> o.max,
     on_change |-> o.on_change, idx |-> i]

\* Option::operator==(const char* s), valid for a combo
OptionEquals(o, s) ==
    ~CaseInsensitiveLess(o.currentValue, s) /\ ~CaseInsensitiveLess(s, o.currentValue)

(***************************************************************************)
(* OptionsMap: a std::map ordered by CaseInsensitiveLess, kept as the      *)
(* sequence of its (key, Option) nodes in iteration order                  *)
(***************************************************************************)
\* om.count(k)
Count(om, k) == Cardinality({i \in DOMAIN om : KeyEquiv(om[i].key, k)})

\* the place of the node om.find(k) points to; count(k) = 1 is required
Position(om, k) == CHOOSE i \in DOMAIN om : KeyEquiv(om[i].key, k)

\* om[k] of a key that is present
At(om, k) == om[Position(om, k)].opt

\* the number of nodes whose key orders before k
LowerBound(om, k) ==
    Cardinality({i \in DOMAIN om : CaseInsensitiveLess(om[i].key, k)})

\* o[k] << opt: operator[] finds the node of k, or makes one under the key
\* as written, and operator<< copies opt into it and gives it the next
\* insertion index
OptionInsert(om, k, opt, order) ==
    IF Count(om, k) > 0
    THEN [om EXCEPT ![Position(om, k)].opt = WithIdx(opt, order)]
    ELSE LET p == LowerBound(om, k)
         IN  SubSeq(om, 1, p) \o <<[key |-> k, opt |-> WithIdx(opt, order)]>>
             \o SubSeq(om, p + 1, Len(om))

\* What the idx of a default-constructed Option may hold: no constructor
\* sets idx, operator<< does
IndeterminateIdx == {0, 7}

\* om[k] and nothing more: operator[] finds the node of k or, when there is
\* none, makes one under k with a default-constructed Option, which is
\* Option(OnChange = nullptr), the only constructor that takes no argument
Subscript(om, k, i) ==
    IF Count(om, k) > 0 THEN om
    ELSE LET p == LowerBound(om, k)
         IN  SubSeq(om, 1, p)
             \o <<[key |-> k, opt |-> WithIdx(OptionButton(nullptr), i)]>>
             \o SubSeq(om, p + 1, Len(om))

(***************************************************************************)
(* operator<<(std::ostream&, const OptionsMap&)                            *)
(***************************************************************************)
\* DescriptorLine printing currentValue where the code prints defaultValue
DescriptorLineOfCurrentValue(e) ==
    LET o == e.opt
    IN  [name |-> e.key, type |-> o.type,
         hasDefault |-> o.type \in {"string", "check", "combo", "spin"},
         default |-> IF o.type \in {"string", "check", "combo"} THEN o.currentValue
                     ELSE IF o.type = "spin" THEN IntToText(Stof(o.currentValue).int)
                     ELSE T_empty,
         hasRange |-> o.type = "spin",
         min |-> IF o.type = "spin" THEN o.min ELSE 0,
         max |-> IF o.type = "spin" THEN o.max ELSE 0]

\* One printed line "option name <name> type <type> [default <d>]
\* [min <lo> max <hi>]", kept as its fields
DescriptorLine(e) ==
    LET o == e.opt
    IN  [name |-> e.key, type |-> o.type,
         hasDefault |-> o.type \in {"string", "check", "combo", "spin"},
         default |-> IF o.type \in {"string", "check", "combo"} THEN o.defaultValue
                     ELSE IF o.type = "spin" THEN IntToText(Stof(o.defaultValue).int)
                     ELSE T_empty,
         hasRange |-> o.type = "spin",
         min |-> IF o.type = "spin" THEN o.min ELSE 0,
         max |-> IF o.type = "spin" THEN o.max ELSE 0]

\* the inner loop: the first node, in key order, whose idx is the wanted one
FirstWithIdx(om, idx) ==
    LET hits == {i \in DOMAIN om : om[i].opt.idx = idx}
    IN  IF hits = {} THEN 0 ELSE CHOOSE i \in hits : \A j \in hits : i <= j

\* the outer loop, from idx on: for (idx = 0; idx < om.size(); ++idx)
RECURSIVE SerializeFrom(_, _)
SerializeFrom(om, idx) ==
    IF idx >= Len(om) THEN << >>
    ELSE LET i == FirstWithIdx(om, idx)
         IN  (IF i = 0 THEN << >> ELSE <<DescriptorLine(om[i])>>)
             \o SerializeFrom(om, idx + 1)

\* the printing in the order of the map's keys, idx unused
SerializeInKeyOrder(om) == [i \in DOMAIN om |-> DescriptorLine(om[i])]

Serialize(om) == SerializeFrom(om, 0)

(***************************************************************************)
(* Option::operator=(const string&)                                        *)
(***************************************************************************)
\* stof(v) is reached, and throws: the first two tests of the condition
\* are false for a spin with a non-empty v, the third one calls stof
AssignThrows(o, v) ==
    o.type = "spin" /\ v # T_empty /\ Stof(v).status # "ok"

\* AssignRejects without the test for an empty text
AssignRejectsTakesEmpty(o, v) ==
    \/ (o.type = "check" /\ v # T_true /\ v # T_false)
    \/ (o.type = "spin" /\ v # T_empty
          /\ (FloatLess(Stof(v), o.min) \/ FloatGreater(Stof(v), o.max)))

\* AssignRejects without the test against max
AssignRejectsNoMax(o, v) ==
    \/ (o.type # "button" /\ v = T_empty)
    \/ (o.type = "check" /\ v # T_true /\ v # T_false)
    \/ (o.type = "spin" /\ FloatLess(Stof(v), o.min))

\* the condition of the early return, when nothing is thrown
AssignRejects(o, v) ==
    \/ (o.type # "button" /\ v = T_empty)
    \/ (o.type = "check" /\ v # T_true /\ v # T_false)
    \/ (o.type = "spin" /\ (FloatLess(Stof(v), o.min) \/ FloatGreater(Stof(v), o.max)))

AssignOutcome(o, v) ==
    IF AssignThrows(o, v) THEN "invalid_argument"
    ELSE IF AssignRejects(o, v) THEN "rejected"
    ELSE "accepted"

\* AssignValue without the test for a button
AssignValueOfAnyType(o, v) == [o EXCEPT !.currentValue = v]

\* if (type != "button") currentValue = v;
AssignValue(o, v) ==
    IF o.type # "button" THEN [o EXCEPT !.currentValue = v] ELSE o

\* NotifiedOption with on_change called before currentValue is set
NotifiedBeforeUpdate(o, v) == o

\* The Option that on_change(*this) is handed: *this when the call is made
NotifiedOption(o, v) == AssignValue(o, v)

\* if (on_change) on_change(*this): the number of calls an accepted
\* operator= makes
NotifyCalls(o) == IF o.on_change # nullptr THEN 1 ELSE 0

(***************************************************************************)
(* The tuning framework                                                    *)
(***************************************************************************)
\* "K"
N_K == <<75>>
\* "Z"
N_Z == <<90>>
\* "Foo"
N_Foo == <<70, 111, 111>>
\* "mFoo"
N_mFoo == <<109, 70, 111, 111>>
\* "eFoo"
N_eFoo == <<101, 70, 111, 111>>

\* SetRange: a range function (default_range) or a fixed pair
DefaultRange == [fun |-> "default_range", min |-> 0, max |-> 0]
FixedRange(lo, hi) == [fun |-> "fixed", min |-> lo, max |-> hi]

\* r(v)
RangeOf(r, v) ==
    IF r.fun = "default_range"
    THEN (IF v > 0 THEN <<0, 2 * v>> ELSE <<2 * v, 0>>)
    ELSE <<r.min, r.max>>

\* The list of Tune entries: an int with the default range, an int with a
\* fixed range of one value, and a Score with the default range
Entries ==
    << [kind |-> "int",   name |-> N_K,   range |-> DefaultRange],
       [kind |-> "int",   name |-> N_Z,   range |-> FixedRange(7, 7)],
       [kind |-> "score", name |-> N_Foo, range |-> DefaultRange] >>

\* The native parameters the entries are bound to, at start
NativeInit == << 5, 7, [mg |-> 3, eg |-> 4] >>

\* The same with a Score of which one half, or both, is 0
NativeInits ==
    { << 5, 7, [mg |-> a, eg |-> b] >> : a \in {0, 3}, b \in {0, 4} }

\* What Tune::read_results() may hold: nothing, as the file is, or the
\* assignments pasted into its body after a tuning session
TuneResultsTables ==
    { {},
      {[name |-> N_K, value |-> 8], [name |-> N_Z, value |-> 8],
       [name |-> N_mFoo, value |-> 8]},
      {[name |-> N_K, value |-> 0], [name |-> N_eFoo, value |-> 6]} }

\* TuneResults.count(n): a std::map<std::string, int>, compared exactly
ResultsCount(tr, n) == Cardinality({x \in tr : x.name = n})

\* TuneResults[n] of a name that is present
ResultsAt(tr, n) == (CHOOSE x \in tr : x.name = n).value

\* MakeOptionStep without the test for min = max
MakeOptionStepOfAnyRange(st, tr, n, v, r) ==
    LET v2 == IF ResultsCount(tr, n) > 0 THEN ResultsAt(tr, n) ELSE v
        om == OptionInsert(st.om, n,
                           OptionSpin(v2, RangeOf(r, v2)[1], RangeOf(r, v2)[2],
                                      "on_tune"),
                           st.order)
    IN  [om |-> om, order |-> st.order + 1,
         lastOption |-> om[Position(om, n)].key,
         printed |-> Append(st.printed, n)]

\* MakeOptionStep with the bounds taken from the value it was called with
MakeOptionStepRangeOfNative(st, tr, n, v, r) ==
    IF RangeOf(r, v)[1] = RangeOf(r, v)[2] THEN st
    ELSE LET v2 == IF ResultsCount(tr, n) > 0 THEN ResultsAt(tr, n) ELSE v
             om == OptionInsert(st.om, n,
                                OptionSpin(v2, RangeOf(r, v)[1], RangeOf(r, v)[2],
                                           "on_tune"),
                                st.order)
         IN  [om |-> om, order |-> st.order + 1,
              lastOption |-> om[Position(om, n)].key,
              printed |-> Append(st.printed, n)]

\* make_option(n, v, r) on st = [om, order, lastOption, printed]; tr is
\* TuneResults, printed the names of the lines written to std::cout
MakeOptionStep(st, tr, n, v, r) ==
    IF RangeOf(r, v)[1] = RangeOf(r, v)[2] THEN st
    ELSE LET v2 == IF ResultsCount(tr, n) > 0 THEN ResultsAt(tr, n) ELSE v
             om == OptionInsert(st.om, n,
                                OptionSpin(v2, RangeOf(r, v2)[1], RangeOf(r, v2)[2],
                                           "on_tune"),
                                st.order)
         IN  [om |-> om, order |-> st.order + 1,
              lastOption |-> om[Position(om, n)].key,
              printed |-> Append(st.printed, n)]

\* Entry<int>::init_option and Entry<Score>::init_option
InitOptionStep(st, tr, e, val) ==
    IF e.kind = "int" THEN MakeOptionStep(st, tr, e.name, val, e.range)
    ELSE MakeOptionStep(MakeOptionStep(st, tr, <<109>> \o e.name, val.mg, e.range),
                        tr, <<101>> \o e.name, val.eg, e.range)

\* Option::operator double(): stof(currentValue) of a spin, else
\* currentValue == "true"
OptionToDouble(o) ==
    IF o.type = "spin" THEN Stof(o.currentValue)
    ELSE [status |-> "ok", kind |-> "finite", neg |-> FALSE,
          int |-> IF o.currentValue = T_true THEN 1 ELSE 0, frac |-> FALSE]

\* What the conversion of a NaN or an infinity to int may yield: it is
\* undefined, and builds give INT_MIN or 0
UndefinedInts == {(-2147483647) - 1, 0}

\* double to int: truncation; undefined when the value has no int
DoubleToInt(f) == IF f.kind = "finite" THEN {f.int} ELSE UndefinedInts

\* ReadOption with the endgame half read inside the test for "m" + name
ReadOptionEndgameUnderMidgame(om, e, val) ==
    IF e.kind = "int"
    THEN (IF Count(om, e.name) > 0
          THEN DoubleToInt(OptionToDouble(At(om, e.name))) ELSE {val})
    ELSE IF Count(om, <<109>> \o e.name) > 0
         THEN {[mg |-> a, eg |-> b] :
                  a \in DoubleToInt(OptionToDouble(At(om, <<109>> \o e.name))),
                  b \in IF Count(om, <<101>> \o e.name) > 0
                        THEN DoubleToInt(OptionToDouble(At(om, <<101>> \o e.name)))
                        ELSE {val.eg}}
         ELSE {val}

\* Entry<T>::read_option: the values the native parameter may take
ReadOption(om, e, val) ==
    IF e.kind = "int"
    THEN (IF Count(om, e.name) > 0
          THEN DoubleToInt(OptionToDouble(At(om, e.name))) ELSE {val})
    ELSE LET mgs == IF Count(om, <<109>> \o e.name) > 0
                    THEN DoubleToInt(OptionToDouble(At(om, <<109>> \o e.name)))
                    ELSE {val.mg}
             egs == IF Count(om, <<101>> \o e.name) > 0
                    THEN DoubleToInt(OptionToDouble(At(om, <<101>> \o e.name)))
                    ELSE {val.eg}
         IN  {[mg |-> a, eg |-> b] : a \in mgs, b \in egs}

\* Tune::read_options(): read_option() of every entry of the list
ReadOptions(om, val) ==
    {<<a, b, c>> : a \in ReadOption(om, Entries[1], val[1]),
                   b \in ReadOption(om, Entries[2], val[2]),
                   c \in ReadOption(om, Entries[3], val[3])}

\* on_tune(o): o is the node under key k of registry r; Options is
\* registry 1, the only one LastOption points into
OnTuneReads(uol, lastOption, r, k) == ~uol \/ (r = 1 /\ lastOption = k)

(***************************************************************************)
(* BoolConditions                                                          *)
(***************************************************************************)
\* the BoolConditions instances of the process: 1 is the global Conditions,
\* 2 is another instance
Samplers == {1, 2}

\* binary after init(size) with two conditions
NoFlags == <<FALSE, FALSE>>

NoSet == [sampler |-> 0, values |-> <<0, 0>>, variance |-> 0, threshold |-> 0,
          result |-> "none"]

\* what a sampler holds when set() is called: values, variance, threshold
ConditionValues == {<<0, 2>>, <<2, 2>>}
Variances == {0, 1, 2}
Thresholds == {0, 1}

\* the set() calls a run makes at most
MaxSamples == 3

\* the flag computed with startup left out
FlagWithoutStartup(st, v, rem, threshold) == v + rem > threshold

\* !startup && (values[i] + int(rng.rand<unsigned>() % variance) > threshold),
\* rem the remainder; with startup set the right side is not evaluated
Flag(st, v, rem, threshold) == ~st /\ (v + rem > threshold)

\* The flags a set() call may leave. With startup set no remainder is taken.
\* Without it, a variance of 0 makes the remainder undefined (a build that
\* does not trap leaves any flags), and a variance above 0 gives each
\* condition a remainder of 0 .. variance - 1.
FlagsOf(st, vals, variance, threshold) ==
    IF st THEN {[i \in DOMAIN vals |-> Flag(st, vals[i], 0, threshold)]}
    ELSE IF variance = 0 THEN [DOMAIN vals -> BOOLEAN]
    ELSE {[i \in DOMAIN vals |-> Flag(st, vals[i], rems[i], threshold)] :
             rems \in [DOMAIN vals -> 0..(variance - 1)]}

(***************************************************************************)
(* The program                                                             *)
(***************************************************************************)
\* the insertions (operator<< calls) a run makes at most
MaxInserts == 8
\* the operator= calls a run makes at most
MaxAssigns == 1

\* the OptionsMap instances of the process: 1 is the global Options, 2 is
\* another instance
Registries == {1, 2}

\* std::thread::hardware_concurrency()
HardwareConcurrency == {0, 1024}

\* unsigned n = hardware_concurrency(); if (!n) n = 1;
ThreadsDefault(hc) == IF hc = 0 THEN 1 ELSE hc

\* init(): one hard-coded option of each type, in the order of the source
InitList(hc) ==
    << [name |-> N_DebugLogFile, opt |-> OptionString(T_empty, "on_logger")],
       [name |-> N_AnalysisCT,   opt |-> OptionCombo(T_AnalysisChoices, T_Both, nullptr)],
       [name |-> N_Threads,
        opt |-> OptionSpin(ThreadsDefault(hc), 1, 512, "on_threads")],
       [name |-> N_ClearHash,    opt |-> OptionButton("on_clear_hash")],
       [name |-> N_Ponder,       opt |-> OptionCheck(FALSE, nullptr)] >>

\* o[name] << Option(...) for every line of the list, from line i on
RECURSIVE InitFrom(_, _, _, _)
InitFrom(om, list, i, order) ==
    IF i > Len(list) THEN om
    ELSE InitFrom(OptionInsert(om, list[i].name, list[i].opt, order),
                  list, i + 1, order + 1)

\* o[name] << Option(...) made by another caller: on Options, under a name
\* that differs from a hard-coded one in letter case only; on the other
\* instance, under a name that Options holds too
Registrations ==
    {[reg |-> 1, name |-> N_THREADS, opt |-> OptionSpin(4, 1, 512, "on_threads")],
     [reg |-> 2, name |-> N_Ponder,  opt |-> OptionCheck(FALSE, nullptr)]}

\* the names a caller looks an Option up under
LookupNames ==
    {N_Threads, N_THREADS, N_DebugLogFile, N_AnalysisCT, N_ClearHash, N_Ponder,
     N_K, N_Z, N_mFoo, N_eFoo}

\* the texts a caller assigns
Inputs == {T_empty, T_true, T_0, T_512, T_513, T_nan, T_abc, T_off}

\* the texts assigned to the Options the tuning made, and their names
TuneInputs == {T_0, T_6, T_2p5, T_nan, T_513}
TuneNames == {N_K, N_mFoo, N_eFoo}
\* the operator= calls on them a run makes at most
MaxTuneAssigns == 2

\* LastOption == nullptr
NoOption == << >>

VARIABLES
    maps,            \* registry -> its OptionsMap
    insert_order,    \* the static counter of Option::operator<<
    TuneResults,     \* the static table of recorded results
    value,           \* entry -> the native parameter it is bound to
    nextEntry,       \* the entry Tune::init() handles next
    update_on_last,  \* Tune::update_on_last
    LastOption,      \* the key of the node LastOption points to
    history,         \* the operator<< calls made so far: registry and name
    assigns,         \* the operator= calls made so far
    last,            \* the last call: its arguments and what it did
    startup,         \* the static flag of BoolConditions::set
    binary,          \* sampler -> its flags
    sampled,         \* sampler -> the set() calls made on it so far
    lastSet,         \* the last set() call: its sampler, inputs and outcome
    lookups          \* the unguarded operator[] calls made so far

conditionVars == <<startup, binary, sampled, lastSet>>

vars == <<maps, insert_order, TuneResults, value, nextEntry, update_on_last,
          LastOption, history, assigns, last, conditionVars, lookups>>

NoCall == [op |-> "none", reg |-> 0, key |-> T_empty, input |-> T_empty,
           result |-> "none", calls |-> 0, observed |-> T_empty]

\* static bool startup = true; no set() call made, the flags as
\* BoolConditions::init leaves them
InitConditions ==
    /\ startup = TRUE
    /\ binary = [s \in Samplers |-> NoFlags]
    /\ sampled = [s \in Samplers |-> 0]
    /\ lastSet = NoSet

\* everything but the native parameters
InitRest ==
    /\ maps = [r \in Registries |-> << >>]
    /\ insert_order = 0
    /\ TuneResults \in TuneResultsTables
    /\ nextEntry = 1
    /\ update_on_last \in BOOLEAN
    /\ LastOption = NoOption
    /\ history = << >>
    /\ assigns = 0
    /\ last = NoCall
    /\ InitConditions
    /\ lookups = 0

Init == InitRest /\ value = NativeInit

\* the same start, with a Score of which a half may be 0
InitTune == InitRest /\ value \in NativeInits

\* An exception nobody catches ends the process
Running == last.result # "invalid_argument"

\* UCI::init(Options), the first thing the program does
UciInit ==
    /\ Running
    /\ insert_order = 0
    /\ \E hc \in HardwareConcurrency :
         /\ maps' = [maps EXCEPT ![1] = InitFrom(@, InitList(hc), 1, insert_order)]
         /\ insert_order' = insert_order + Len(InitList(hc))
         /\ history' = history \o [i \in DOMAIN InitList(hc) |->
                                      [reg |-> 1, name |-> InitList(hc)[i].name]]
    /\ last' = [NoCall EXCEPT !.op = "init", !.reg = 1]
    /\ UNCHANGED <<TuneResults, value, nextEntry, update_on_last, LastOption, assigns,
                   conditionVars, lookups>>

\* o[name] << Option(...), after UCI::init
Insert(x) ==
    /\ Running
    /\ insert_order > 0
    /\ insert_order < MaxInserts
    /\ maps' = [maps EXCEPT ![x.reg] = OptionInsert(@, x.name, x.opt, insert_order)]
    /\ insert_order' = insert_order + 1
    /\ history' = Append(history, [reg |-> x.reg, name |-> x.name])
    /\ last' = [NoCall EXCEPT !.op = "insert", !.reg = x.reg,
                              !.key = maps'[x.reg][Position(maps'[x.reg], x.name)].key]
    /\ UNCHANGED <<TuneResults, value, nextEntry, update_on_last, LastOption, assigns,
                   conditionVars, lookups>>

\* Tune::init(): init_option() of the next entry of the list
InitOption ==
    /\ Running
    /\ insert_order > 0
    /\ nextEntry <= Len(Entries)
    /\ insert_order + (IF Entries[nextEntry].kind = "score" THEN 2 ELSE 1) <= MaxInserts
    /\ LET st == InitOptionStep([om |-> maps[1], order |-> insert_order,
                                 lastOption |-> LastOption, printed |-> << >>],
                                TuneResults, Entries[nextEntry], value[nextEntry])
       IN  /\ maps' = [maps EXCEPT ![1] = st.om]
           /\ insert_order' = st.order
           /\ LastOption' = st.lastOption
           /\ history' = history \o [i \in DOMAIN st.printed |->
                                        [reg |-> 1, name |-> st.printed[i]]]
    /\ last' = [NoCall EXCEPT !.op = "init_option", !.reg = 1,
                              !.key = Entries[nextEntry].name]
    /\ nextEntry' = nextEntry + 1
    /\ UNCHANGED <<TuneResults, value, update_on_last, assigns, conditionVars, lookups>>

\* what operator=(v) does to the node at place p of registry r
AssignAt(r, p, v) ==
    LET o   == maps[r][p].opt
        res == AssignOutcome(o, v)
        om  == IF res = "accepted"
               THEN [maps EXCEPT ![r][p].opt = AssignValue(o, v)] ELSE maps
        n   == IF res = "accepted" THEN NotifyCalls(o) ELSE 0
    IN  /\ maps' = om
        /\ last' = [op |-> "assign", reg |-> r, key |-> maps[r][p].key, input |-> v,
                    result |-> res, calls |-> n,
                    observed |-> IF n > 0 THEN NotifiedOption(o, v).currentValue
                                 ELSE T_empty]
        /\ IF n > 0 /\ o.on_change = "on_tune"
              /\ OnTuneReads(update_on_last, LastOption, r, maps[r][p].key)
           THEN value' \in ReadOptions(om[1], value)
           ELSE value' = value

\* if (o.count(name)) o[name] = v, on registry r, v one of texts, the
\* calls capped at bound
AssignFrom(r, name, texts, bound) ==
    /\ Running
    /\ assigns < bound
    /\ Count(maps[r], name) > 0
    /\ \E v \in texts : AssignAt(r, Position(maps[r], name), v)
    /\ assigns' = assigns + 1
    /\ UNCHANGED <<insert_order, TuneResults, nextEntry, update_on_last, LastOption,
                   history, conditionVars, lookups>>

Assign(r, name) == AssignFrom(r, name, Inputs, MaxAssigns)

Next ==
    \/ UciInit
    \/ \E x \in Registrations : Insert(x)
    \/ InitOption
    \/ \E r \in Registries, name \in LookupNames : Assign(r, name)

Spec == Init /\ [][Next]_vars

(***************************************************************************)
(* Lookups that no count() guards                                          *)
(***************************************************************************)
\* the unguarded operator[] calls a run makes at most
MaxLookups == 2

\* o[name], by a caller that does not ask o.count(name) first
Lookup(r, name) ==
    /\ Running
    /\ lookups < MaxLookups
    /\ \E i \in IndeterminateIdx :
         maps' = [maps EXCEPT ![r] = Subscript(@, name, i)]
    /\ last' = [NoCall EXCEPT !.op = "subscript", !.reg = r, !.key = name,
                              !.result = IF Count(maps[r], name) > 0
                                         THEN "found" ELSE "inserted"]
    /\ lookups' = lookups + 1
    /\ UNCHANGED <<insert_order, TuneResults, value, nextEntry, update_on_last,
                   LastOption, history, assigns, conditionVars>>

NextLookup ==
    \/ UciInit
    \/ \E r \in Registries, name \in LookupNames : Lookup(r, name)

SpecLookup == Init /\ [][NextLookup]_vars

(***************************************************************************)
(* The sampling of the conditions                                          *)
(***************************************************************************)
\* BoolConditions::set() on instance s. An instance's construction touches
\* neither startup nor rng, so instance 2 stands for one made at any time
\* before its first set(). A remainder by 0 is undefined: the build traps,
\* which ends the process, or goes on.
ConditionsSet(s) ==
    /\ lastSet.result # "sigfpe"
    /\ sampled[1] + sampled[2] < MaxSamples
    /\ \E vals \in ConditionValues, variance \in Variances, threshold \in Thresholds :
         \/ /\ ~startup /\ variance = 0
            /\ lastSet' = [sampler |-> s, values |-> vals, variance |-> variance,
                           threshold |-> threshold, result |-> "sigfpe"]
            /\ UNCHANGED <<startup, binary>>
         \/ /\ binary' \in {[binary EXCEPT ![s] = f] :
                               f \in FlagsOf(startup, vals, variance, threshold)}
            /\ startup' = FALSE
            /\ lastSet' = [sampler |-> s, values |-> vals, variance |-> variance,
                           threshold |-> threshold, result |-> "done"]
    /\ sampled' = [sampled EXCEPT ![s] = @ + 1]
    /\ UNCHANGED <<maps, insert_order, TuneResults, value, nextEntry, update_on_last,
                   LastOption, history, assigns, last, lookups>>

NextSampler == \E s \in Samplers : ConditionsSet(s)

SpecSampler == Init /\ [][NextSampler]_vars

(***************************************************************************)
(* The tuning session: UCI::init, Tune::init, and the Options it made      *)
(* being set                                                               *)
(***************************************************************************)
\* if (Options.count(name)) Options[name] = v, for an Option the tuning made
TuneAssign(name) == AssignFrom(1, name, TuneInputs, MaxTuneAssigns)

\* Tune::read_options(), called as such
ReadOptionsCall ==
    /\ Running
    /\ value' \in ReadOptions(maps[1], value)
    /\ last' = [NoCall EXCEPT !.op = "read_options", !.reg = 1]
    /\ UNCHANGED <<maps, insert_order, TuneResults, nextEntry, update_on_last,
                   LastOption, history, assigns, conditionVars, lookups>>

NextTune ==
    \/ UciInit
    \/ InitOption
    \/ \E name \in TuneNames : TuneAssign(name)
    \/ ReadOptionsCall

SpecTune == InitTune /\ [][NextTune]_vars

(***************************************************************************)
(* Properties                                                              *)
(***************************************************************************)
\* the Option the last call was made on
LastTarget == At(maps[last.reg], last.key)

LastWasAssign == last.op = "assign"

\* parse(v) is a number and lo <= parse(v) <= hi
InBounds(v, lo, hi) ==
    /\ Stof(v).status = "ok"
    /\ Stof(v).kind # "nan"
    /\ ~FloatLess(Stof(v), lo)
    /\ ~FloatGreater(Stof(v), hi)

\* the inputs C1 lists: empty text for a non-button, a check text other
\* than "true" and "false", a spin number below min or above max
Malformed(o, v) ==
    \/ (o.type # "button" /\ v = T_empty)
    \/ (o.type = "check" /\ v \notin {T_true, T_false})
    \/ (o.type = "spin" /\ Stof(v).status = "ok"
          /\ (FloatLess(Stof(v), o.min) \/ FloatGreater(Stof(v), o.max)))

\* C1: an operator= whose input is malformed or out of range changes no
\* Option of the registry (current value and idx included), calls no
\* on_change, and so changes no native parameter either.
C1_MalformedAssignChangesNothing ==
    [][ (last'.op = "assign" /\ assigns' # assigns
           /\ Malformed(At(maps[last'.reg], last'.key), last'.input))
        => (maps' = maps /\ last'.calls = 0 /\ value' = value) ]_vars

\* C1 witness: "513" was assigned to a spin with an on_change and max 512
C1_Witness ==
    /\ LastWasAssign
    /\ LastTarget.type = "spin"
    /\ LastTarget.on_change # nullptr
    /\ Stof(last.input).status = "ok"
    /\ FloatGreater(Stof(last.input), LastTarget.max)

\* C2 (as claimed): operator= on a spin accepts v, and makes it the
\* current value, if and only if min <= parse(v) <= max.
C2_SpinAcceptedIffInBounds ==
    (LastWasAssign /\ LastTarget.type = "spin")
    => ( (last.result = "accepted" /\ LastTarget.currentValue = last.input)
         <=> InBounds(last.input, LastTarget.min, LastTarget.max) )

\* C3 (as claimed): operator= returns normally whatever the input is.
C3_AssignNeverThrows ==
    LastWasAssign => last.result \in {"accepted", "rejected"}

\* C4: an accepted operator= calls a registered on_change exactly once, and
\* the call sees the updated Option (the new current value; a button has
\* none to update); with no on_change the value is updated and no call is
\* made.
C4_AcceptedAssignNotifiesOnceAfterUpdate ==
    (LastWasAssign /\ last.result = "accepted")
    => /\ (LastTarget.type # "button" => LastTarget.currentValue = last.input)
       /\ (LastTarget.on_change # nullptr
             => last.calls = 1 /\ last.observed = LastTarget.currentValue)
       /\ (LastTarget.on_change = nullptr => last.calls = 0)

\* C4 witness: Threads, which has an on_change, took a new value, and
\* Ponder, which has none, did
C4_Witness ==
    /\ LastWasAssign
    /\ last.result = "accepted"
    /\ LastTarget.type # "button"
    /\ LastTarget.on_change # nullptr
    /\ LastTarget.currentValue # LastTarget.defaultValue
    /\ last.calls = 1
    /\ last.observed = last.input

\* texts that differ in letter case at most
CaseVariant(a, b) ==
    Len(a) = Len(b) /\ \A i \in DOMAIN a : ToLower(a[i]) = ToLower(b[i])

\* the place in history of the last operator<< on registry r under a case
\* variant of k; 0 when there was none
LastInsert(r, k) ==
    LET ps == {p \in DOMAIN history :
                  history[p].reg = r /\ CaseVariant(history[p].name, k)}
    IN  IF ps = {} THEN 0 ELSE CHOOSE p \in ps : \A q \in ps : q <= p

C6_PrintingEmitsEachOptionOnce ==
    \A r \in Registries :
        LET out == Serialize(maps[r])
        IN  \A i \in DOMAIN maps[r] :
                Cardinality({a \in DOMAIN out : out[a].name = maps[r][i].key}) = 1

\* the pairs of names a caller uses that differ in letter case only
VariantPairs ==
    {x \in LookupNames \X LookupNames : x[1] # x[2] /\ CaseVariant(x[1], x[2])}

\* C7: a registry never holds two nodes whose keys differ in letter case
\* only, and the lookups under two case variants of a name find the same
\* node, or both find none.
C7_CaseVariantsAreOneEntry ==
    \A r \in Registries :
        /\ \A i, j \in DOMAIN maps[r] :
               i < j => ~CaseVariant(maps[r][i].key, maps[r][j].key)
        /\ \A x \in VariantPairs :
               /\ Count(maps[r], x[1]) = Count(maps[r], x[2])
               /\ Count(maps[r], x[1]) > 0
                    => Position(maps[r], x[1]) = Position(maps[r], x[2])

\* C7 witness: "Threads" was inserted into Options and "THREADS" after it,
\* and both names find the one node
C7_Witness ==
    /\ \E p, q \in DOMAIN history :
           /\ p < q
           /\ history[p] = [reg |-> 1, name |-> N_Threads]
           /\ history[q] = [reg |-> 1, name |-> N_THREADS]
    /\ Count(maps[1], N_THREADS) = 1
    /\ Position(maps[1], N_THREADS) = Position(maps[1], N_Threads)
    /\ Len(maps[1]) = 5

\* C8 (as claimed): the idx of the Options of a registry are pairwise
\* distinct, and no step changes the idx of an Option the registry holds.
C8_IndexesDistinctAndStable ==
    [][ \A r \in Registries :
            /\ \A i, j \in DOMAIN maps'[r] :
                   i # j => maps'[r][i].opt.idx # maps'[r][j].opt.idx
            /\ \A i \in DOMAIN maps[r], j \in DOMAIN maps'[r] :
                   maps'[r][j].key = maps[r][i].key
                   => maps'[r][j].opt.idx = maps[r][i].opt.idx ]_vars

\* C9 (as claimed): the current value of every spin is a number within
\* min and max.
C9_SpinValueWithinBounds ==
    \A r \in Registries : \A i \in DOMAIN maps[r] :
        maps[r][i].opt.type = "spin"
        => InBounds(maps[r][i].opt.currentValue, maps[r][i].opt.min,
                    maps[r][i].opt.max)

\* the texts that " var " separates in s; cur is the one being read
RECURSIVE SplitVar(_, _)
SplitVar(s, cur) ==
    IF s = << >> THEN <<cur>>
    ELSE IF Len(s) >= Len(T_var) /\ SubSeq(s, 1, Len(T_var)) = T_var
    THEN <<cur>> \o SplitVar(SubSeq(s, Len(T_var) + 1, Len(s)), << >>)
    ELSE SplitVar(Tail(s), Append(cur, Head(s)))

\* the choices of a combo: what follows each "var" of its default text
Choices(o) ==
    LET ts == SplitVar(o.defaultValue, << >>)
    IN  {ts[i] : i \in 2..Len(ts)}

IsChoice(o) == \E c \in Choices(o) : CaseVariant(o.currentValue, c)

\* the combos the registries hold
Combos ==
    {o \in UNION {{maps[r][i].opt : i \in DOMAIN maps[r]} : r \in Registries} :
        o.type = "combo"}

\* C10 (as claimed): the current value of every combo equals one of its
\* choices, letter case apart.
C10_ComboValueIsAChoice == \A o \in Combos : IsChoice(o)

\* C10 (amended): the current value of every combo is one of its choices,
\* letter case apart, or a non-empty text that was assigned: operator=
\* takes any non-empty text for a combo.
C10_ComboValueIsChoiceOrAssigned ==
    \A o \in Combos :
        IsChoice(o) \/ (o.currentValue # T_empty /\ o.currentValue \in Inputs)

\* C10 witness: a combo took an assigned text that is none of its choices,
\* and, in another run, one that is a choice in another letter case
C10_Witness ==
    /\ LastWasAssign
    /\ last.result = "accepted"
    /\ LastTarget.type = "combo"
    /\ LastTarget.currentValue = last.input
    /\ ~IsChoice(LastTarget)

\* C11: operator= on a button accepts every text, the empty one included:
\* it changes no Option of the registry (the button's current value, default
\* and idx stay), and calls on_change once if there is one.
C11_ButtonAssignOnlyNotifies ==
    [][ (last'.op = "assign" /\ assigns' # assigns
           /\ At(maps[last'.reg], last'.key).type = "button")
        => /\ last'.result = "accepted"
           /\ maps' = maps
           /\ last'.calls = (IF At(maps[last'.reg], last'.key).on_change # nullptr
                             THEN 1 ELSE 0) ]_vars

\* C11 witness: the empty text was assigned to Clear Hash, a button with an
\* on_change, which was called once
C11_Witness ==
    /\ LastWasAssign
    /\ LastTarget.type = "button"
    /\ last.input = T_empty
    /\ last.result = "accepted"
    /\ last.calls = 1
    /\ LastTarget.currentValue = T_empty

\* the step is an init_option() call, of the entry nextEntry
InitOptionStepTaken == last'.op = "init_option" /\ nextEntry' = nextEntry + 1

\* the range function gives (x, x) for v
Degenerate(r, v) == RangeOf(r, v)[1] = RangeOf(r, v)[2]

\* the keys of a map
Keys(om) == {om[i].key : i \in DOMAIN om}

\* C12: init_option() of an entry whose range is (x, x) for its value makes
\* no Option, whatever TuneResults holds: Options, the insertion counter and
\* LastOption are as before. Of a Score each half is such an entry: the
\* half whose range is (x, x) gets no Option.
C12_DegenerateRangeMakesNoOption ==
    [][ InitOptionStepTaken
        => LET e == Entries[nextEntry]
               v == value[nextEntry]
           IN  /\ (e.kind = "int" /\ Degenerate(e.range, v))
                    => (maps' = maps /\ insert_order' = insert_order
                          /\ LastOption' = LastOption)
               /\ (e.kind = "score" /\ Degenerate(e.range, v.mg)
                     /\ Degenerate(e.range, v.eg))
                    => (maps' = maps /\ insert_order' = insert_order
                          /\ LastOption' = LastOption)
               /\ (e.kind = "score" /\ Degenerate(e.range, v.mg))
                    => (<<109>> \o e.name) \notin Keys(maps'[1])
               /\ (e.kind = "score" /\ Degenerate(e.range, v.eg))
                    => (<<101>> \o e.name) \notin Keys(maps'[1]) ]_vars

\* C12 witness: init_option() ran on Z, whose range is (7, 7), with a
\* result recorded for Z, and Options holds no Z
C12_Witness ==
    /\ last.op = "init_option"
    /\ last.key = N_Z
    /\ ResultsCount(TuneResults, N_Z) > 0
    /\ Count(maps[1], N_Z) = 0
    /\ Count(maps[1], N_K) = 1

\* the Option under k is a spin bound to the half h: it holds h, or the
\* result recorded for k
HoldsHalf(om, k, h) ==
    /\ Count(om, k) = 1
    /\ At(om, k).type = "spin"
    /\ At(om, k).currentValue = At(om, k).defaultValue
    /\ At(om, k).currentValue \in
         {ToString(h)} \cup {ToString(x.value) : x \in {y \in TuneResults : y.name = k}}

\* C13 (as claimed): init_option() of a Score entry "Foo" makes exactly two
\* Options, "mFoo" holding the midgame half and "eFoo" the endgame half,
\* and operator= on either accepts v if and only if min <= parse(v) <= max.
C13_ScoreSplitsIntoTwoSpins ==
    [][ /\ (InitOptionStepTaken /\ Entries[nextEntry].kind = "score")
          => LET m == <<109>> \o Entries[nextEntry].name
                 e == <<101>> \o Entries[nextEntry].name
             IN  /\ Keys(maps'[1]) \ Keys(maps[1]) = {m, e}
                 /\ insert_order' = insert_order + 2
                 /\ HoldsHalf(maps'[1], m, value[nextEntry].mg)
                 /\ HoldsHalf(maps'[1], e, value[nextEntry].eg)
        /\ (last'.op = "assign" /\ assigns' # assigns /\ last'.reg = 1
              /\ last'.key \in {N_mFoo, N_eFoo})
          => ( (last'.result = "accepted"
                  /\ At(maps'[1], last'.key).currentValue = last'.input)
               <=> InBounds(last'.input, At(maps[1], last'.key).min,
                            At(maps[1], last'.key).max) ) ]_vars

\* the last step was the first set() call made on its sampler
FirstSetOfSampler ==
    lastSet.sampler \in Samplers /\ sampled[lastSet.sampler] = 1
      /\ lastSet.result = "done"

\* C14 (as claimed): the first set() call on every sampler leaves all its
\* flags false, whatever its values, variance and threshold, also when
\* another sampler of the process was sampled before.
C14_FirstSetOfSamplerAllFalse ==
    FirstSetOfSampler => binary[lastSet.sampler] = NoFlags

\* C14 (amended): the first set() call of the process ends normally and
\* leaves all flags false, whatever the values, variance (0 included) and
\* threshold.
C14_FirstSetOfProcessAllFalse ==
    (lastSet.sampler \in Samplers /\ sampled[1] + sampled[2] = 1)
    => (lastSet.result = "done" /\ binary[lastSet.sampler] = NoFlags /\ ~startup)

\* C14 witness: the first set() call of the process had values above the
\* threshold and a variance of 0, and left the flags false
C14_Witness ==
    /\ lastSet.sampler \in Samplers
    /\ sampled[1] + sampled[2] = 1
    /\ lastSet.variance = 0
    /\ \A i \in DOMAIN lastSet.values : lastSet.values[i] > lastSet.threshold
    /\ binary[lastSet.sampler] = NoFlags

\* C15 (as claimed): the lookup of a name the registry does not hold, letter
\* case apart, fails with NotFound and leaves the registry as it was: it
\* adds no entry.
C15_LookupOfAbsentNameAddsNothing ==
    [][ (last'.op = "subscript" /\ lookups' # lookups
           /\ Count(maps[last'.reg], last'.key) = 0)
        => (last'.result = "not_found" /\ maps' = maps) ]_vars

\* the step is init_option() of an int entry whose range is not (x, x)
\* for its native value
ScalarOptionMade ==
    /\ InitOptionStepTaken
    /\ Entries[nextEntry].kind = "int"
    /\ ~Degenerate(Entries[nextEntry].range, value[nextEntry])

\* the value the Option of entry i starts with: the result recorded for its
\* name, or else the native value
StartingValue(i) ==
    IF ResultsCount(TuneResults, Entries[i].name) > 0
    THEN ResultsAt(TuneResults, Entries[i].name) ELSE value[i]

\* the Option is a spin that starts with v, between r[1] and r[2]
SpinStartingWith(o, v, r) ==
    /\ o.type = "spin"
    /\ o.defaultValue = ToString(v)
    /\ o.currentValue = ToString(v)
    /\ o.min = r[1]
    /\ o.max = r[2]

TunedKeys(om) == {om[i].key : i \in {j \in DOMAIN om : om[j].opt.on_change = "on_tune"}}

\* the native int n equals the number the Option holds
EqualsOption(o, n) ==
    LET f == Stof(o.currentValue)
    IN  f.status = "ok" /\ f.kind = "finite" /\ ~f.frac /\ f.int = n

\* every entry's native parameter equals the current value of its Option,
\* for the Options that exist: of a Score each half for itself
Synced(om, val) ==
    \A i \in DOMAIN Entries :
        IF Entries[i].kind = "int"
        THEN Count(om, Entries[i].name) > 0
               => EqualsOption(At(om, Entries[i].name), val[i])
        ELSE /\ Count(om, <<109>> \o Entries[i].name) > 0
                  => EqualsOption(At(om, <<109>> \o Entries[i].name), val[i].mg)
             /\ Count(om, <<101>> \o Entries[i].name) > 0
                  => EqualsOption(At(om, <<101>> \o Entries[i].name), val[i].eg)

\* the step is an operator= on an Option the tuning made
TunedAssignStep ==
    /\ last'.op = "assign" /\ assigns' # assigns /\ last'.reg = 1
    /\ At(maps[1], last'.key).on_change = "on_tune"

\* a batch is over: Tune::init() is done and each Option it made was
\* assigned once, every call accepted
BatchDone ==
    /\ nextEntry > Len(Entries)
    /\ TunedKeys(maps[1]) # {}
    /\ assigns = Cardinality(TunedKeys(maps[1]))
    /\ \A k \in TunedKeys(maps[1]) :
           At(maps[1], k).currentValue # At(maps[1], k).defaultValue

\* C17 (as claimed): with update_on_last set, the assigns of a batch made
\* after Tune::init() change no native parameter until the last Option of
\* the batch is assigned, and that assign leaves every native parameter
\* equal to the current value of its Option, in whatever order the Options
\* are assigned.
C17_BatchResyncsAtItsLastAssign ==
    [][ (TunedAssignStep /\ update_on_last /\ nextEntry > Len(Entries)
           /\ last'.result = "accepted")
        => IF BatchDone' THEN Synced(maps'[1], value') ELSE value' = value ]_vars

\* C18 (as claimed): with update_on_last clear, after every accepted
\* assign to an Option the tuning made, every entry's native parameter
\* equals the current value of its Option (of a Score each half its own),
\* and a rejected assign changes no native parameter.
C18_AcceptedAssignResyncsEveryEntry ==
    [][ (TunedAssignStep /\ ~update_on_last)
        => /\ last'.result = "accepted" => Synced(maps'[1], value')
           /\ last'.result = "rejected" => value' = value ]_vars

\* the step runs Tune::read_options(): called as such, or by on_tune
ReadOptionsStep ==
    \/ last'.op = "read_options"
    \/ /\ TunedAssignStep
       /\ last'.result = "accepted"
       /\ (~update_on_last \/ LastOption = last'.key)

\* new is what read_option() leaves in a half that was old: the int the
\* Option under k holds when there is one (what a NaN converts to is
\* undefined), and old when there is none
HalfRead(om, k, old, new) ==
    IF Count(om, k) = 0 THEN new = old
    ELSE IF Stof(At(om, k).currentValue).kind = "finite"
    THEN new = Stof(At(om, k).currentValue).int
    ELSE new \in UndefinedInts

\* C19: read_option() of a Score entry copies each half if and only if the
\* Option of that half exists: with "m" + name alone the midgame half takes
\* the value of that Option and the endgame half stays, and the other way
\* round; with neither the Score stays; and no read adds an entry to
\* Options.
C19_EachHalfReadIfItsOptionExists ==
    [][ ReadOptionsStep
        => /\ Keys(maps'[1]) = Keys(maps[1])
           /\ Len(maps'[1]) = Len(maps[1])
           /\ \A i \in DOMAIN Entries :
                  Entries[i].kind = "score"
                  => /\ HalfRead(maps'[1], <<109>> \o Entries[i].name,
                                 value[i].mg, value'[i].mg)
                     /\ HalfRead(maps'[1], <<101>> \o Entries[i].name,
                                 value[i].eg, value'[i].eg) ]_vars

\* C19 witness: Options holds eFoo and no mFoo; read_options() was called;
\* the endgame half, 4 at start, is the 6 that eFoo holds and the midgame
\* half is the 0 it was
C19_Witness ==
    /\ last.op = "read_options"
    /\ Count(maps[1], N_mFoo) = 0
    /\ Count(maps[1], N_eFoo) = 1
    /\ Stof(At(maps[1], N_eFoo).currentValue).int = 6
    /\ value[3] = [mg |-> 0, eg |-> 6]

\* the step is a call of operator=, on whatever Option of whatever map
AssignStep == last'.op = "assign" /\ assigns' # assigns

\* C20: operator=, accepted or rejected, leaves the type, the default value,
\* min, max and idx of every Option as they were, and every map's keys, so
\* what operator<< prints for a map is the same before and after each
\* assign, hence after any sequence of them.
C20_AssignKeepsDescriptors ==
    [][ AssignStep
        => \A r \in Registries :
              /\ Len(maps'[r]) = Len(maps[r])
              /\ \A i \in DOMAIN maps[r] :
                    /\ maps'[r][i].key = maps[r][i].key
                    /\ maps'[r][i].opt.type = maps[r][i].opt.type
                    /\ maps'[r][i].opt.defaultValue = maps[r][i].opt.defaultValue
                    /\ maps'[r][i].opt.min = maps[r][i].opt.min
                    /\ maps'[r][i].opt.max = maps[r][i].opt.max
                    /\ maps'[r][i].opt.idx = maps[r][i].opt.idx
              /\ Serialize(maps'[r]) = Serialize(maps[r]) ]_vars

\* C20 witness: an accepted assign gave a spin a current value other than
\* its default, and the line printed for it still shows the default
C20_Witness ==
    /\ LastWasAssign
    /\ last.result = "accepted"
    /\ LastTarget.type = "spin"
    /\ Stof(LastTarget.currentValue).int # Stof(LastTarget.defaultValue).int
    /\ \E i \in DOMAIN Serialize(maps[last.reg]) :
          /\ Serialize(maps[last.reg])[i].name = last.key
          /\ Serialize(maps[last.reg])[i].default
                = IntToText(Stof(LastTarget.defaultValue).int)
          /\ Serialize(maps[last.reg])[i].default # last.input

=============================================================================
